---------------------------- MODULE Spec2Model ----------------------------
(***************************************************************************)
(* Model of the type-model extraction front end, parse/getast.go:          *)
(* GetAST, GetElems, GetTypeSpecs, GenElem, parseFieldList, embedded and   *)
(* parseExpr.                                                              *)
(*                                                                         *)
(* Syntax trees (go/ast) are records tagged by `node`; generator elements  *)
(* (gen.Elem) are records tagged by `t`.  Every allocated generator        *)
(* element carries the address `addr` of its allocation, so that aliasing  *)
(* between two elements is observable.  A run-time panic (a failed type    *)
(* assertion) is carried as the flag `panic` of a call's result and        *)
(* unwinds every caller.                                                   *)
(***************************************************************************)
EXTENDS Naturals, Sequences, FiniteSets

VARIABLES
    pc,      \* position of the running call
    src,     \* the source file handed to the parser
    f,       \* the *ast.File held by GetElems (NilFile when absent)
    err,     \* the error GetElems holds / returns
    specs,   \* the []*ast.TypeSpec returned by GetTypeSpecs
    i,       \* loop index of GetElems over specs (1-based)
    out,     \* the []gen.Elem accumulated by GetElems
    origin,  \* history: for each element of out, the index of its spec
    calls,   \* history: number of calls made to GetTypeSpecs and GenElem
    ret,     \* the value a finished call returned
    heap,    \* next free allocation address
    arg      \* the argument of a direct parseExpr / parseFieldList call

vars == <<pc, src, f, err, specs, i, out, origin, calls, ret, heap, arg>>

----------------------------------------------------------------------------
(* Bounds of the model.                                                    *)

\* nesting depth of the type expressions handed to parseExpr
MaxDepth == 2
\* number of field declarations in a field list handed to parseFieldList
MaxFields == 2
\* number of top-level declarations in a source file
MaxDecls == 2

----------------------------------------------------------------------------
(* go/ast nodes.                                                           *)

Ident(n) == [node |-> "Ident", Name |-> n]
StarExpr(x) == [node |-> "StarExpr", X |-> x]
ArrayType(elt) == [node |-> "ArrayType", Elt |-> elt]
MapType(k, v) == [node |-> "MapType", Key |-> k, Value |-> v]
StructType(fl) == [node |-> "StructType", Fields |-> fl]
SelectorExpr(p, s) == [node |-> "SelectorExpr", Pkg |-> p, Sel |-> s]
InterfaceType == [node |-> "InterfaceType"]
ChanType(v) == [node |-> "ChanType", Value |-> v]

\* a field tag literal: absent, a raw (back-quoted) literal or an
\* interpreted (double-quoted) literal, holding key:"value" pairs
NoTag == [quote |-> "none", pairs |-> <<>>]
RawTag(k, v) == [quote |-> "raw", pairs |-> <<[key |-> k, val |-> v]>>]
InterpTag(k, v) == [quote |-> "interp", pairs |-> <<[key |-> k, val |-> v]>>]

Field(names, type, tag) == [Names |-> names, Type |-> type, Tag |-> tag]

----------------------------------------------------------------------------
(* gen elements.                                                           *)

Nil == [t |-> "nil"]
BaseElem(value, ident, a) ==
    [t |-> "BaseElem", Value |-> value, Ident |-> ident, addr |-> a]
Slice(els, a) == [t |-> "Slice", Els |-> els, addr |-> a]
Ptr(value, a) == [t |-> "Ptr", Value |-> value, addr |-> a]
Struct(name, fields, a) ==
    [t |-> "Struct", Name |-> name, Fields |-> fields, addr |-> a]
StructField(tag, name, elem) ==
    [FieldTag |-> tag, FieldName |-> name, FieldElem |-> elem]

\* the result of a call: its value, the allocator after it, whether it panicked
Result(v, a) == [val |-> v, next |-> a, panic |-> FALSE]
Panic(a) == [val |-> Nil, next |-> a, panic |-> TRUE]

\* the base kinds parseExpr recognises by identifier
BaseKind(name) ==
    CASE name = "float32" -> "Float32"
      [] name = "float64" -> "Float64"
      [] name = "complex128" -> "Complex128"
      [] name = "complex64" -> "Complex64"
      [] name = "int" -> "Int"
      [] name = "int8" -> "Int8"
      [] name = "int16" -> "Int16"
      [] name = "int32" -> "Int32"
      [] name = "int64" -> "Int64"
      [] name = "uint" -> "Uint"
      [] name = "uint8" -> "Uint8"
      [] name = "uint16" -> "Uint16"
      [] name = "uint32" -> "Uint32"
      [] name = "uint64" -> "Uint64"
      [] name = "string" -> "String"
      [] name = "bool" -> "Bool"
      [] OTHER -> "IDENT"

\* reflect.StructTag(strings.Trim(lit, "`")).Get(key): only a raw literal
\* loses its quotes in the trim; an interpreted literal still starts with a
\* double quote, where the key scan stops and yields ""
RECURSIVE Lookup(_, _, _)
Lookup(pairs, key, k) ==
    IF k > Len(pairs) THEN ""
    ELSE IF pairs[k].key = key THEN pairs[k].val
    ELSE Lookup(pairs, key, k + 1)

TagGet(tag, key) ==
    IF tag.quote = "raw" THEN Lookup(tag.pairs, key, 1) ELSE ""

\* extract embedded field name
RECURSIVE embedded(_)
embedded(e) ==
    CASE e.node = "Ident" -> e.Name
      [] e.node = "StarExpr" -> embedded(e.X)
      [] OTHER -> ""

RECURSIVE parseExpr(_, _)
RECURSIVE parseFieldList(_, _)
RECURSIVE fieldLoop(_, _, _, _)
RECURSIVE nameLoop(_, _, _, _, _)

\* case *ast.MapType of parseExpr
parseMap(e, a) ==
    IF e.Key.node = "Ident"
    THEN IF e.Key.Name = "string"
         THEN IF e.Value.node # "Ident"
              THEN Panic(a)    \* failed assertion Value.(*ast.Ident)
              ELSE CASE e.Value.Name = "string" ->
                            Result(BaseElem("MapStrStr", "", a), a + 1)
                     [] e.Value.Name = "interface{}" ->
                            Result(BaseElem("MapStrIntf", "", a), a + 1)
                     [] OTHER -> Result(Nil, a)
         ELSE Result(Nil, a)
    ELSE Result(Nil, a)

\* case *ast.Ident of parseExpr
parseIdent(e, a) ==
    IF BaseKind(e.Name) = "IDENT"
    THEN Result(BaseElem("IDENT", e.Name, a), a + 1)
    ELSE Result(BaseElem(BaseKind(e.Name), "", a), a + 1)

\* the special case for []byte
IsByteElt(elt) == elt.node = "Ident" /\ elt.Name = "byte"

\* case *ast.ArrayType of parseExpr
parseArray(e, a) ==
    IF IsByteElt(e.Elt)
    THEN Result(BaseElem("Bytes", "", a), a + 1)
    ELSE LET r == parseExpr(e.Elt, a)
         IN  IF r.panic THEN r
             ELSE Result(Slice(r.val, r.next), r.next + 1)

\* case *ast.StarExpr of parseExpr
parseStar(e, a) ==
    LET r == parseExpr(e.X, a)
    IN  IF r.panic THEN r
        ELSE Result(Ptr(r.val, r.next), r.next + 1)

\* case *ast.StructType of parseExpr
parseStruct(e, a) ==
    LET r == parseFieldList(e.Fields, a)
    IN  IF r.panic THEN r
        ELSE Result(Struct("", r.val, r.next), r.next + 1)

\* go from ast.Expr to gen.Elem; Nil means type not supported
parseExpr(e, a) ==
    CASE e.node = "MapType" -> parseMap(e, a)
      [] e.node = "Ident" -> parseIdent(e, a)
      [] e.node = "ArrayType" -> parseArray(e, a)
      [] e.node = "StarExpr" -> parseStar(e, a)
      [] e.node = "StructType" -> parseStruct(e, a)
      [] OTHER -> Result(Nil, a)

\* nameLoop with the field type parsed once and its element shared by
\* every name of the declaration
nameLoopShared(names, j, type, acc, a) ==
    LET r == parseExpr(type, a)
    IN  IF r.panic THEN r
        ELSE Result(acc \o [k \in 1..(Len(names) - j + 1) |->
                              StructField(names[j + k - 1], names[j + k - 1],
                                          r.val)],
                    r.next)

\* the inline multiple field declaration: one StructField per name, each
\* with its own parseExpr call, nothing dropped
nameLoop(names, j, type, acc, a) ==
    IF j > Len(names) THEN Result(acc, a)
    ELSE LET r == parseExpr(type, a)
         IN  IF r.panic THEN r
             ELSE nameLoop(names, j + 1, type,
                           Append(acc, StructField(names[j], names[j], r.val)),
                           r.next)

\* the name of a field declaration with at most one name
fieldName(field) ==
    IF Len(field.Names) = 1 THEN field.Names[1] ELSE embedded(field.Type)

\* the tag of a field declaration with at most one name ("-" excludes it)
fieldTag(field) ==
    LET t == IF field.Tag.quote # "none" THEN TagGet(field.Tag, "msg") ELSE ""
    IN  IF t = "" THEN fieldName(field) ELSE t

\* the loop for_fields of parseFieldList, from field k on
fieldLoop(fl, k, acc, a) ==
    IF k > Len(fl) THEN Result(acc, a)
    ELSE LET field == fl[k]
         IN  IF Len(field.Names) > 1
             THEN LET r == nameLoop(field.Names, 1, field.Type, acc, a)
                  IN  IF r.panic THEN r
                      ELSE fieldLoop(fl, k + 1, r.val, r.next)
             ELSE IF fieldTag(field) = "-"
             THEN fieldLoop(fl, k + 1, acc, a)
             ELSE LET r == parseExpr(field.Type, a)
                  IN  IF r.panic THEN r
                      ELSE IF r.val = Nil
                      THEN fieldLoop(fl, k + 1, acc, r.next)
                      ELSE fieldLoop(fl, k + 1,
                               Append(acc, StructField(fieldTag(field),
                                                       fieldName(field), r.val)),
                               r.next)

parseFieldList(fl, a) ==
    IF Len(fl) = 0 THEN Result(<<>>, a) ELSE fieldLoop(fl, 1, <<>>, a)


\* GenElem without the check for an empty field list
GenElemKeepEmpty(in, a) ==
    IF in.Type.node = "StructType"
    THEN LET r == parseFieldList(in.Type.Fields, a)
         IN  IF r.panic THEN r
             ELSE Result(Ptr(Struct(in.Name, r.val, r.next), r.next + 1),
                         r.next + 2)
    ELSE Result(Nil, a)

\* GenElem creates the gen.Elem out of an ast.TypeSpec; only a struct type
\* with at least one surviving field yields one
GenElem(in, a) ==
    IF in.Type.node = "StructType"
    THEN LET r == parseFieldList(in.Type.Fields, a)
         IN  IF r.panic THEN r
             ELSE IF Len(r.val) = 0 THEN Result(Nil, r.next)
             ELSE Result(Ptr(Struct(in.Name, r.val, r.next), r.next + 1),
                         r.next + 2)
    ELSE Result(Nil, a)

----------------------------------------------------------------------------
(* ast.FileExports, as GetAST calls it: trims the tree to its exported     *)
(* nodes and reports whether an exported declaration is left.              *)

\* the identifiers of the model that start with an upper-case letter
UpperNames == {"A", "B", "C", "F", "R", "S", "T", "V"}
IsExported(name) == name \in UpperNames

RECURSIVE filterIdentList(_)
filterIdentList(names) ==
    IF names = <<>> THEN <<>>
    ELSE IF IsExported(Head(names))
    THEN <<Head(names)>> \o filterIdentList(Tail(names))
    ELSE filterIdentList(Tail(names))

\* the identifier naming an anonymous field ("" when there is none)
RECURSIVE anonFieldName(_)
anonFieldName(x) ==
    CASE x.node = "Ident" -> x.Name
      [] x.node = "SelectorExpr" -> x.Sel
      [] x.node = "StarExpr" -> anonFieldName(x.X)
      [] OTHER -> ""

RECURSIVE filterType(_)
RECURSIVE filterFieldList(_)

filterType(typ) ==
    CASE typ.node = "ArrayType" -> ArrayType(filterType(typ.Elt))
      [] typ.node = "StructType" -> StructType(filterFieldList(typ.Fields))
      [] typ.node = "MapType" ->
             MapType(filterType(typ.Key), filterType(typ.Value))
      [] typ.node = "ChanType" -> ChanType(filterType(typ.Value))
      [] OTHER -> typ

filterFieldList(fl) ==
    IF fl = <<>> THEN <<>>
    ELSE LET fd == Head(fl)
             rest == filterFieldList(Tail(fl))
         IN  IF Len(fd.Names) = 0
             THEN IF IsExported(anonFieldName(fd.Type))
                  THEN <<Field(fd.Names, filterType(fd.Type), fd.Tag)>> \o rest
                  ELSE rest
             ELSE LET kept == filterIdentList(fd.Names)
                  IN  IF Len(kept) > 0
                      THEN <<Field(kept, filterType(fd.Type), fd.Tag)>> \o rest
                      ELSE rest

TypeSpec(name, type) == [spec |-> "TypeSpec", Name |-> name, Type |-> type]
ValueSpec(name) == [spec |-> "ValueSpec", Name |-> name]
GenDecl(ss) == [decl |-> "GenDecl", Specs |-> ss]
FuncDecl(name) == [decl |-> "FuncDecl", Name |-> name, Specs |-> <<>>]

RECURSIVE filterSpecList(_)
filterSpecList(ss) ==
    IF ss = <<>> THEN <<>>
    ELSE LET s == Head(ss)
             rest == filterSpecList(Tail(ss))
         IN  IF ~IsExported(s.Name) THEN rest
             ELSE IF s.spec = "TypeSpec"
             THEN <<TypeSpec(s.Name, filterType(s.Type))>> \o rest
             ELSE <<s>> \o rest

RECURSIVE filterFile(_)
filterFile(decls) ==
    IF decls = <<>> THEN <<>>
    ELSE LET d == Head(decls)
             rest == filterFile(Tail(decls))
         IN  IF d.decl = "GenDecl"
             THEN LET ss == filterSpecList(d.Specs)
                  IN  IF Len(ss) > 0 THEN <<GenDecl(ss)>> \o rest ELSE rest
             ELSE IF IsExported(d.Name) THEN <<d>> \o rest ELSE rest

NilFile == [Decls |-> <<>>, isNil |-> TRUE]
NoError == ""
ParseError == "parse error"
NoExports == "no exports in file"

\* parser.ParseFile: no tree when the source cannot be read, the partial
\* tree and an error when it has a syntax error, else the tree
ParseFile(file) ==
    IF ~file.read THEN [f |-> NilFile, err |-> ParseError]
    ELSE [f |-> [Decls |-> file.Decls, isNil |-> FALSE],
          err |-> IF file.ok THEN NoError ELSE ParseError]

\* GetAST without the check of what ast.FileExports reports
GetASTNoGate(file) ==
    LET p == ParseFile(file)
    IN  IF p.err # NoError THEN p
        ELSE [f |-> [Decls |-> filterFile(p.f.Decls), isNil |-> FALSE],
              err |-> NoError]

\* GetAST creates the ast out of a file and filters out non-exported
\* elements; on a parse error it returns what the parser returned
GetAST(file) ==
    LET p == ParseFile(file)
    IN  IF p.err # NoError THEN p
        ELSE LET kept == filterFile(p.f.Decls)
             IN  IF Len(kept) = 0
                 THEN [f |-> NilFile, err |-> NoExports]
                 ELSE [f |-> [Decls |-> kept, isNil |-> FALSE],
                       err |-> NoError]

\* the *ast.TypeSpec of every GenDecl of the file, in order
RECURSIVE typeSpecsOf(_)
typeSpecsOf(ss) ==
    IF ss = <<>> THEN <<>>
    ELSE IF Head(ss).spec = "TypeSpec"
    THEN <<Head(ss)>> \o typeSpecsOf(Tail(ss))
    ELSE typeSpecsOf(Tail(ss))

RECURSIVE GetTypeSpecs(_)
GetTypeSpecs(decls) ==
    IF decls = <<>> THEN <<>>
    ELSE IF Head(decls).decl = "GenDecl"
    THEN typeSpecsOf(Head(decls).Specs) \o GetTypeSpecs(Tail(decls))
    ELSE GetTypeSpecs(Tail(decls))

----------------------------------------------------------------------------
(* The inputs: what the parser can hand to the code.                       *)

\* sequences over S of length at most n
SeqsUpTo(S, n) == UNION {[1..k -> S] : k \in 0..n}

\* type expressions without a component
Leaves ==
    {Ident("int"), Ident("string"), Ident("uint8"), Ident("byte"), Ident("T"),
     SelectorExpr("pkg", "T"), InterfaceType, ChanType(Ident("int"))}

\* the key types of the map types of the model
KeyTypes == {Ident("string"), Ident("int"), StarExpr(Ident("string"))}

\* a type expression and the type expressions built on it
Over(x) ==
    {x, StarExpr(x), ArrayType(x), StructType(<<Field(<<"A">>, x, NoTag)>>),
     StructType(<<>>)}
    \cup {MapType(k, x) : k \in KeyTypes}

\* type expressions nested at most d deep
RECURSIVE TypeExprs(_)
TypeExprs(d) ==
    IF d = 0 THEN Leaves ELSE UNION {Over(x) : x \in TypeExprs(d - 1)}

\* the types an anonymous field can have: ["*"] TypeName
EmbeddedTypes ==
    {Ident("T"), StarExpr(Ident("T")),
     SelectorExpr("pkg", "T"), StarExpr(SelectorExpr("pkg", "T"))}

\* the types of the named fields of the field lists of the model
FieldTypes ==
    {Ident("int"), ChanType(Ident("int")), ArrayType(ChanType(Ident("int"))),
     MapType(Ident("string"), Ident("string")),
     MapType(Ident("string"), ArrayType(Ident("int"))),
     StarExpr(Ident("T")),
     StructType(<<Field(<<"A">>, Ident("int"), NoTag)>>)}

FieldDecls ==
    {Field(n, t, g) : n \in {<<"A">>, <<"B", "C">>}, t \in FieldTypes,
                      g \in {NoTag, RawTag("msg", "-"), RawTag("msg", "k"),
                             RawTag("json", "-"), InterpTag("msg", "-")}}
    \cup {Field(<<>>, t, g) : t \in EmbeddedTypes,
                              g \in {NoTag, RawTag("msg", "-"), RawTag("msg", "k")}}

FieldLists == SeqsUpTo(FieldDecls, MaxFields)

\* the field declarations of the top-level structs of the model
DeclFields ==
    {Field(<<"A">>, Ident("int"), NoTag),
     Field(<<"A">>, Ident("int"), RawTag("msg", "-")),
     Field(<<"B", "C">>, Ident("string"), RawTag("msg", "-")),
     Field(<<"B", "a">>, Ident("string"), NoTag),
     Field(<<>>, StarExpr(Ident("T")), NoTag),
     Field(<<"A">>, ChanType(Ident("int")), NoTag)}

\* further field lists of the top-level structs of the model
MoreFieldLists ==
    {<<Field(<<"A">>, Ident("int"), RawTag("json", "-"))>>,
     <<Field(<<"a">>, Ident("int"), NoTag)>>,
     <<Field(<<"A">>, MapType(Ident("string"), InterfaceType), NoTag)>>}

TypeSpecs ==
    {TypeSpec("S", StructType(fl)) :
        fl \in SeqsUpTo(DeclFields, 2) \cup MoreFieldLists}
    \cup {TypeSpec("R", StructType(<<Field(<<"A">>, Ident("int"), NoTag)>>)),
          TypeSpec("s", StructType(<<Field(<<"A">>, Ident("int"), NoTag)>>)),
          TypeSpec("T", Ident("int"))}

Decls ==
    {GenDecl(<<ts>>) : ts \in TypeSpecs}
    \cup {GenDecl(<<ValueSpec("v")>>), FuncDecl("F"), FuncDecl("f"),
          GenDecl(<<TypeSpec("s", Ident("int")), ValueSpec("v")>>),
          GenDecl(<<TypeSpec("S", StructType(
                        <<Field(<<"A">>, Ident("int"), NoTag),
                          Field(<<"B", "C">>, Ident("string"), NoTag)>>)),
                    TypeSpec("R", StructType(
                        <<Field(<<"B">>, Ident("T"), NoTag)>>))>>)}

Files ==
    {[ok |-> TRUE, read |-> TRUE, Decls |-> ds] :
        ds \in SeqsUpTo(Decls, MaxDecls)}
    \cup {[ok |-> FALSE, read |-> TRUE, Decls |-> ds] :
             ds \in SeqsUpTo(Decls, 1)}
    \cup {[ok |-> FALSE, read |-> FALSE, Decls |-> <<>>]}

NoFile == [ok |-> FALSE, read |-> FALSE, Decls |-> <<>>]
NoArg == Nil
NoReturn == [list |-> <<>>, err |-> NoError]
NoCalls == [GetTypeSpecs |-> 0, GenElem |-> 0]

----------------------------------------------------------------------------
(* GetElems on a source file.                                              *)

Init ==
    /\ pc = "GetAST"
    /\ src \in Files
    /\ f = NilFile
    /\ err = NoError
    /\ specs = <<>>
    /\ i = 1
    /\ out = <<>>
    /\ origin = <<>>
    /\ calls = NoCalls
    /\ ret = NoReturn
    /\ heap = 0
    /\ arg = NoArg

\* f, err := GetAST(filename); on an error GetElems returns nil and the error
CallGetAST ==
    /\ pc = "GetAST"
    /\ LET r == GetAST(src)
       IN  /\ f' = r.f
           /\ err' = r.err
           /\ IF r.err # NoError
              THEN pc' = "done" /\ ret' = [list |-> <<>>, err |-> r.err]
              ELSE pc' = "GetTypeSpecs" /\ ret' = ret
    /\ UNCHANGED <<src, specs, i, out, origin, calls, heap, arg>>

\* specs := GetTypeSpecs(f); without specs GetElems returns nil, nil
CallGetTypeSpecs ==
    /\ pc = "GetTypeSpecs"
    /\ specs' = GetTypeSpecs(f.Decls)
    /\ calls' = [calls EXCEPT !.GetTypeSpecs = @ + 1]
    /\ IF Len(specs') = 0
       THEN pc' = "done" /\ ret' = [list |-> <<>>, err |-> NoError]
       ELSE pc' = "loop" /\ ret' = ret
    /\ UNCHANGED <<src, f, err, i, out, origin, heap, arg>>

\* one iteration of the loop over specs: GenElem, and append if not nil
LoopGenElem ==
    /\ pc = "loop"
    /\ i <= Len(specs)
    /\ calls' = [calls EXCEPT !.GenElem = @ + 1]
    /\ LET r == GenElem(specs[i], heap)
       IN  /\ heap' = r.next
           /\ IF r.panic
              THEN pc' = "panicked" /\ UNCHANGED <<i, out, origin>>
              ELSE /\ pc' = pc
                   /\ i' = i + 1
                   /\ IF r.val # Nil
                      THEN out' = Append(out, r.val) /\ origin' = Append(origin, i)
                      ELSE UNCHANGED <<out, origin>>
    /\ UNCHANGED <<src, f, err, specs, ret, arg>>

\* return out, nil
Return ==
    /\ pc = "loop"
    /\ i > Len(specs)
    /\ pc' = "done"
    /\ ret' = [list |-> out, err |-> NoError]
    /\ UNCHANGED <<src, f, err, specs, i, out, origin, calls, heap, arg>>

Next == CallGetAST \/ CallGetTypeSpecs \/ LoopGenElem \/ Return

Spec == Init /\ [][Next]_vars

----------------------------------------------------------------------------
(* parseExpr on a type expression.                                         *)

InitExpr ==
    /\ pc = "parseExpr"
    /\ arg \in TypeExprs(MaxDepth)
    /\ src = NoFile /\ f = NilFile /\ err = NoError /\ specs = <<>> /\ i = 1
    /\ out = <<>> /\ origin = <<>> /\ calls = NoCalls /\ ret = NoReturn
    /\ heap = 0

CallParseExpr ==
    /\ pc = "parseExpr"
    /\ LET r == parseExpr(arg, heap)
       IN  /\ pc' = IF r.panic THEN "panicked" ELSE "done"
           /\ ret' = [list |-> <<r.val>>, err |-> NoError]
           /\ heap' = r.next
    /\ UNCHANGED <<src, f, err, specs, i, out, origin, calls, arg>>

NextExpr == CallParseExpr

SpecExpr == InitExpr /\ [][NextExpr]_vars

----------------------------------------------------------------------------
(* parseFieldList on a field list.                                         *)

InitFields ==
    /\ pc = "parseFieldList"
    /\ arg \in FieldLists
    /\ src = NoFile /\ f = NilFile /\ err = NoError /\ specs = <<>> /\ i = 1
    /\ out = <<>> /\ origin = <<>> /\ calls = NoCalls /\ ret = NoReturn
    /\ heap = 0

CallParseFieldList ==
    /\ pc = "parseFieldList"
    /\ LET r == parseFieldList(arg, heap)
       IN  /\ pc' = IF r.panic THEN "panicked" ELSE "done"
           /\ ret' = [list |-> IF r.panic THEN <<>> ELSE r.val, err |-> NoError]
           /\ heap' = r.next
    /\ UNCHANGED <<src, f, err, specs, i, out, origin, calls, arg>>

NextFields == CallParseFieldList

SpecFields == InitFields /\ [][NextFields]_vars

----------------------------------------------------------------------------
(* Properties of parseExpr (checked under SpecExpr).                       *)

\* the element a finished parseExpr call returned
Returned == ret.list[1]

\* C3: parseExpr on a sequence type whose element type is written byte or
\* uint8 returns the base element Bytes, never a Slice of Uint8.
C3_ByteSequenceIsBytes ==
    (pc = "done" /\ arg.node = "ArrayType"
        /\ arg.Elt \in {Ident("byte"), Ident("uint8")})
    => (Returned.t = "BaseElem" /\ Returned.Value = "Bytes")

\* C4: parseExpr on a map type returns MapStrStr for map[string]string,
\* MapStrIntf for map[string]interface{}, and nil for every other key or
\* value type; it returns in every case.
C4_MapKinds ==
    (pc # "parseExpr" /\ arg.node = "MapType")
    => /\ pc = "done"
       /\ Returned =
            IF arg.Key = Ident("string") /\ arg.Value = Ident("string")
            THEN BaseElem("MapStrStr", "", 0)
            ELSE IF arg.Key = Ident("string") /\ arg.Value = InterfaceType
            THEN BaseElem("MapStrIntf", "", 0)
            ELSE Nil

\* type expressions of a shape parseExpr does not support
UnsupportedShape(e) == e.node \in {"ChanType", "InterfaceType", "SelectorExpr"}

\* C9: parseExpr on a sequence type is a Slice of the built element type
\* when that builds, and nil when the element type is unsupported.
C9_SequenceOfUnsupportedIsNil ==
    (pc = "done" /\ arg.node = "ArrayType")
    => /\ UnsupportedShape(arg.Elt) => Returned = Nil
       /\ arg.Elt \in {Ident("int"), Ident("T")}
             => (Returned.t = "Slice" /\ Returned.Els.t = "BaseElem")

----------------------------------------------------------------------------
(* Properties of parseFieldList (checked under SpecFields).                *)

\* C1: a StructField is emitted only with a non-nil element.
C1_NoNilFieldElem ==
    pc = "done" => \A k \in DOMAIN ret.list : ret.list[k].FieldElem # Nil

\* C5: parseFieldList returns normally for every field list, and every
\* single-name field of type int that is not excluded is emitted.
C5_UnsupportedFieldNeverAborts ==
    pc # "parseFieldList"
    => /\ pc = "done"
       /\ \A k \in DOMAIN arg :
            (arg[k].Names = <<"A">> /\ arg[k].Type = Ident("int")
                /\ arg[k].Tag # RawTag("msg", "-"))
            => \E j \in DOMAIN ret.list :
                  /\ ret.list[j].FieldName = "A"
                  /\ ret.list[j].FieldElem.t = "BaseElem"
                  /\ ret.list[j].FieldElem.Value = "Int"

\* the addresses of the elements of an element tree
RECURSIVE Addrs(_)
Addrs(el) ==
    CASE el.t = "nil" -> {}
      [] el.t = "BaseElem" -> {el.addr}
      [] el.t = "Slice" -> {el.addr} \cup Addrs(el.Els)
      [] el.t = "Ptr" -> {el.addr} \cup Addrs(el.Value)
      [] el.t = "Struct" ->
            {el.addr} \cup UNION {Addrs(el.Fields[k].FieldElem) :
                                     k \in DOMAIN el.Fields}

\* the names of the multi-name declarations of a field list, in order
RECURSIVE MultiNames(_)
MultiNames(fl) ==
    IF fl = <<>> THEN <<>>
    ELSE IF Len(Head(fl).Names) > 1
    THEN Head(fl).Names \o MultiNames(Tail(fl))
    ELSE MultiNames(Tail(fl))

\* the fields of a list whose name is one of a set, in order
RECURSIVE FieldsNamed(_, _)
FieldsNamed(fs, names) ==
    IF fs = <<>> THEN <<>>
    ELSE IF Head(fs).FieldName \in names
    THEN <<Head(fs)>> \o FieldsNamed(Tail(fs), names)
    ELSE FieldsNamed(Tail(fs), names)

\* the names that only multi-name declarations of the model carry
MultiOnlyNames == {"B", "C"}

\* C7: a declaration of N >= 2 names yields exactly N fields, one per name
\* in order, each with FieldTag = FieldName = the name whatever the tag
\* says, and no two of these fields share any element.
C7_MultiNameExpansion ==
    pc = "done"
    => LET m == FieldsNamed(ret.list, MultiOnlyNames)
       IN  /\ [k \in DOMAIN m |-> m[k].FieldName] = MultiNames(arg)
           /\ \A k \in DOMAIN m : m[k].FieldTag = m[k].FieldName
           /\ \A k, j \in DOMAIN m :
                k # j => Addrs(m[k].FieldElem) \cap Addrs(m[j].FieldElem) = {}

C7_Witness ==
    /\ pc = "done"
    /\ \E k \in DOMAIN arg :
          /\ arg[k].Names = <<"B", "C">>
          /\ arg[k].Tag = RawTag("msg", "k")
          /\ arg[k].Type = StarExpr(Ident("T"))
    /\ LET m == FieldsNamed(ret.list, MultiOnlyNames)
       IN  Len(m) = 4 /\ Cardinality(Addrs(m[1].FieldElem)) = 2

\* C10: no emitted field has an empty FieldName, and a field embedding T
\* or *T is emitted under the name T.
C10_EmbeddedName ==
    pc = "done"
    => /\ \A j \in DOMAIN ret.list : ret.list[j].FieldName # ""
       /\ \A k \in DOMAIN arg :
            (arg[k].Names = <<>> /\ arg[k].Tag = NoTag
                /\ arg[k].Type \in {Ident("T"), StarExpr(Ident("T"))})
            => \E j \in DOMAIN ret.list :
                  ret.list[j].FieldName = "T" /\ ret.list[j].FieldTag = "T"

----------------------------------------------------------------------------
(* Properties of GetElems (checked under Spec).                            *)

\* a struct declaration with fields, each tagged msg:"-"
AllExcluded(ts) ==
    /\ ts.Type.node = "StructType"
    /\ Len(ts.Type.Fields) > 0
    /\ \A k \in DOMAIN ts.Type.Fields :
          ts.Type.Fields[k].Tag = RawTag("msg", "-")

\* C2: a declaration whose every field carries the exclusion marker yields
\* no element of the returned list, whatever the number of names of a field.
C2_AllExcludedYieldsNothing ==
    pc = "done"
    => \A j \in DOMAIN ret.list : ~AllExcluded(specs[origin[j]])

\* the names a field list declares, in order
RECURSIVE DeclaredNames(_)
DeclaredNames(fl) ==
    IF fl = <<>> THEN <<>>
    ELSE (IF Len(Head(fl).Names) = 0 THEN <<embedded(Head(fl).Type)>>
          ELSE Head(fl).Names) \o DeclaredNames(Tail(fl))

\* the type declarations of a file, in order
RECURSIVE DeclaredTypes(_)
DeclaredTypes(decls) ==
    IF decls = <<>> THEN <<>>
    ELSE SelectSeq(Head(decls).Specs, LAMBDA x : x.spec = "TypeSpec")
            \o DeclaredTypes(Tail(decls))

\* a is b with some elements left out
RECURSIVE IsSubseq(_, _)
IsSubseq(a, b) ==
    IF a = <<>> THEN TRUE
    ELSE IF b = <<>> THEN FALSE
    ELSE IF Head(a) = Head(b) THEN IsSubseq(Tail(a), Tail(b))
    ELSE IsSubseq(a, Tail(b))

\* C6: every returned element is a Ptr to a Struct with at least one field;
\* the elements are in the order of their declarations in the file and the
\* fields of each are in the order the declaration names them.
C6_ShapeAndOrder ==
    (pc = "done" /\ ret.err = NoError)
    => /\ Len(origin) = Len(ret.list)
       /\ \A j \in DOMAIN ret.list :
            /\ ret.list[j].t = "Ptr"
            /\ ret.list[j].Value.t = "Struct"
            /\ Len(ret.list[j].Value.Fields) > 0
            /\ ret.list[j].Value.Name = specs[origin[j]].Name
            /\ IsSubseq([k \in DOMAIN ret.list[j].Value.Fields |->
                            ret.list[j].Value.Fields[k].FieldName],
                        DeclaredNames(specs[origin[j]].Type.Fields))
       /\ \A j, k \in DOMAIN origin : j < k => origin[j] < origin[k]
       /\ IsSubseq([j \in DOMAIN specs |-> specs[j].Name],
                   [j \in DOMAIN DeclaredTypes(src.Decls) |->
                       DeclaredTypes(src.Decls)[j].Name])

C6_Witness ==
    /\ pc = "done"
    /\ Len(ret.list) = 2
    /\ Len(specs) = 3
    /\ origin = <<2, 3>>
    /\ ret.list[1].Value.Name = "S" /\ ret.list[2].Value.Name = "R"
    /\ [k \in 1..3 |-> ret.list[1].Value.Fields[k].FieldName] = <<"A", "B", "C">>

\* a file without an exported top-level declaration
NoneExported(file) ==
    \A k \in DOMAIN file.Decls :
        IF file.Decls[k].decl = "FuncDecl"
        THEN ~IsExported(file.Decls[k].Name)
        ELSE \A j \in DOMAIN file.Decls[k].Specs :
                ~IsExported(file.Decls[k].Specs[j].Name)

\* C8: on a parsed file without an exported declaration GetAST yields no
\* tree and the error "no exports in file", GetElems returns that error
\* with no list, and neither GetTypeSpecs nor GenElem is ever called.
C8_NoExportsRejectsFile ==
    (src.ok /\ NoneExported(src))
    => /\ calls = NoCalls
       /\ pc \in {"GetAST", "done"}
       /\ pc = "done"
             => /\ f = NilFile
                /\ err = NoExports
                /\ ret = [list |-> <<>>, err |-> NoExports]

C8_Witness ==
    /\ pc = "done"
    /\ src.ok
    /\ NoneExported(src)
    /\ \E k \in DOMAIN src.Decls :
          /\ src.Decls[k].decl = "GenDecl"
          /\ src.Decls[k].Specs[1].spec = "TypeSpec"
          /\ src.Decls[k].Specs[1].Type.node = "StructType"
    /\ ret.err = NoExports

============================================================================
